---------------------------- MODULE Spec2Model ----------------------------
(***************************************************************************)
(* Model of the portfolio page's scripts:                                  *)
(*   - the work-row image follower of js/main.js (initWorkHover),          *)
(*   - the magnetic button controller of js/magnetic.js (MagneticButton),  *)
(*   - the DOMContentLoaded handler and the page loader (initLoader),      *)
(*   - the marquee's scroll listener (initMarquee), and                    *)
(*   - the navigation panel (initHamburgerMenu).                           *)
(* Each has its own specification over the one tuple of variables.         *)
(*                                                                         *)
(* The browser is single threaded: every event handler and every           *)
(* requestAnimationFrame callback runs to completion, so each is one       *)
(* action.  Pixel positions are exact decimals: a position p px is stored  *)
(* as the integer p * Scale, and Scale is large enough for every sequence  *)
(* of MaxLerps smoothing steps to be exact (IEEE rounding of the doubles   *)
(* is not modelled).                                                       *)
(***************************************************************************)
EXTENDS Integers, Sequences, FiniteSets, TLC

(***************************************************************************)
(* Bounds of the model.                                                    *)
(***************************************************************************)
\* Total number of smoothing steps (calls of animate() that move the follower).
MaxLerps == 4
\* Number of requestAnimationFrame callbacks that may be queued at once.
MaxPending == 2

(***************************************************************************)
(* Program constants.                                                      *)
(***************************************************************************)
\* mouseX = e.clientX - 175
OffsetX == 175
\* mouseY = e.clientY - 200
OffsetY == 200
\* current += (target - current) * 0.1, i.e. a tenth of the remaining offset
SmoothingInverse == 10

RECURSIVE Pow(_, _)
Pow(b, n) == IF n = 0 THEN 1 ELSE b * Pow(b, n - 1)

\* Stored units per pixel: every position reachable from whole pixels by at
\* most MaxLerps smoothing steps is a whole number of units.
Scale == Pow(SmoothingInverse, MaxLerps)

Abs(x) == IF x < 0 THEN -x ELSE x

(***************************************************************************)
(* The document: the .work-row elements and their data-img attributes.     *)
(* getAttribute gives null (<< >>) for a row without the attribute.        *)
(***************************************************************************)
Rows == {"rowA", "rowB", "rowNoAttr", "rowEmptyAttr"}
NoRow == "none"

getAttributeDataImg(row) ==
    CASE row = "rowA" -> <<"a.jpg">>
      [] row = "rowB" -> <<"b.jpg">>
      [] row = "rowEmptyAttr" -> <<"">>
      [] OTHER -> << >>

\* Mutant: the handler without its `if (imgSrc)` guard.
TruthyAlways(s) == TRUE

\* JavaScript truthiness of a string-or-null: null and "" are falsy.
Truthy(s) == s # << >> /\ s[1] # ""

\* Pointer coordinates (px) drawn for mousemove events over a row.
ClientXs == {175, 475}
ClientYs == {200, 400}

VARIABLES
    \* ---- initWorkHover closure ----
    mouseX, mouseY,         \* target (units)
    currentX, currentY,     \* follower position (units)
    animating,              \* loop flag
    \* ---- DOM state written by initWorkHover ----
    hoverImgSrc,            \* hoverImg.src
    hoverActive,            \* hoverContainer.classList.contains('active')
    hoverLeft, hoverTop,    \* hoverContainer.style.left/top: << >> unset, <<units>>
    \* ---- browser: pointer and animation frames ----
    hover,                  \* the row the pointer is over, or NoRow
    rafQueued,              \* animate callbacks requested for the next frame
    rafRunning,             \* callbacks of the frame being rendered still to run
    \* ---- observation ----
    lerps,                  \* smoothing steps taken so far
    frameWrites,            \* position writes made by callbacks of the latest frame
    lastTick,               \* "enter" | "frame" | "none": who ran animate() last step
    tickFromX, tickFromY,   \* the position before the latest step
    fixStartX, fixStartY,   \* position when the target was last set
    fixTicks,               \* smoothing steps since the target was last set
    lastMove                \* <<clientX, clientY>> of the latest mousemove, or << >>

followerVars == <<mouseX, mouseY, currentX, currentY, animating, hoverImgSrc,
                  hoverActive, hoverLeft, hoverTop, hover, rafQueued, rafRunning,
                  lerps, frameWrites, lastTick, tickFromX, tickFromY,
                  fixStartX, fixStartY, fixTicks, lastMove>>

\* ---- MagneticButton instances, one per .magnetic element ----
VARIABLES
    transform,              \* el.style.transform of each magnetic element
    transition,             \* el.style.transition of each magnetic element
    listening,              \* per element: its controller's listeners are attached
    \* ---- browser: document ----
    attached,               \* per element: it is part of the rendered document
    \* ---- browser: pointer ----
    magnetHover,            \* the magnetic element the pointer is over, or NoMagnet
    \* ---- observation ----
    lastEvent,              \* per element: the latest event its controller handled
    displaced,              \* per element: some pointer-move gave a non-zero translation
    destroyed               \* per element: destroy() was called on its controller

magnetVars == <<transform, transition, listening, attached, magnetHover,
                lastEvent, displaced, destroyed>>

\* ---- the DOMContentLoaded handler and the page loader ----
VARIABLES
    \* ---- browser: document ----
    present,                \* the optional elements the document has
    scripts,                \* the scripts that were loaded before main.js ran
    readyState,             \* document.readyState
    loaderLoaded,           \* #pageLoader has class 'loaded'
    \* ---- the handler's effects ----
    domReady,               \* the DOMContentLoaded handler has run
    completed,              \* the init steps that ran and returned
    thrown,                 \* the init step that threw, or NoStep
    registered,             \* listeners, timers, tweens and triggers set up
    loaderTimers,           \* pending 800 ms timeouts of dismissLoader
    heroTimers,             \* pending 400 ms timeouts
    \* ---- observation ----
    dismissedBy,            \* the path that called dismissLoader
    dismissCalls,           \* calls of dismissLoader
    heroStarts              \* calls of animateHeroEntry

pageVars == <<present, scripts, readyState, loaderLoaded, domReady, completed,
              thrown, registered, loaderTimers, heroTimers, dismissedBy,
              dismissCalls, heroStarts>>

\* ---- initMarquee: the scroll listener ----
VARIABLES
    scrollSpeed,            \* let scrollSpeed
    marqueeTimeScale,       \* rate of the marquee tween (1 = 20 s per set)
    scrollTimers,           \* pending 300 ms timeouts: time left of each
    sinceScroll,            \* time since the latest scroll event, capped
    singleSetWidth,         \* let singleSetWidth, in units of the finest step
    tweenX,                 \* the raw x the tween computed last
    marqueeX                \* the x the modifier returned for it: the one applied

tweenVars == <<singleSetWidth, tweenX, marqueeX>>

marqueeVars == <<scrollSpeed, marqueeTimeScale, scrollTimers, sinceScroll,
                 tweenVars>>

\* ---- initHamburgerMenu ----
VARIABLES
    navActive,              \* #fixedNav has class 'active'
    overlayActive,          \* #fixedNavOverlay has class 'active'
    linkTweens,             \* running gsap.from tweens of the nav links
    navClicks,              \* clicks handled so far
    lastClick               \* observation: the latest click and what it did

navVars == <<navActive, overlayActive, linkTweens, navClicks, lastClick>>

siteVars == <<pageVars, marqueeVars, navVars>>

vars == <<followerVars, magnetVars, siteVars>>

(***************************************************************************)
(* initWorkHover                                                           *)
(***************************************************************************)
InitFollower ==
    /\ mouseX = 0 /\ mouseY = 0
    /\ currentX = 0 /\ currentY = 0
    /\ animating = FALSE
    /\ hoverImgSrc = ""
    /\ hoverActive = FALSE
    /\ hoverLeft = << >> /\ hoverTop = << >>
    /\ hover = NoRow
    /\ rafQueued = 0 /\ rafRunning = 0
    /\ lerps = 0 /\ frameWrites = 0 /\ lastTick = "none"
    /\ tickFromX = 0 /\ tickFromY = 0
    /\ fixStartX = 0 /\ fixStartY = 0 /\ fixTicks = 0
    /\ lastMove = << >>

\* Mutant: the offset is taken with the wrong sign, (current - target) * 0.1.
LerpWrongSign(current, target) == current + (current - target) \div SmoothingInverse

\* Mutant: a smoothing factor of 0.2 instead of 0.1.
LerpFifth(current, target) == current + 2 * ((target - current) \div SmoothingInverse)

\* current += (target - current) * 0.1
Lerp(current, target) == current + (target - current) \div SmoothingInverse

\* function animate(): with the flag `flag` in force, `queued` callbacks
\* already requested, called by `who`.
animate(flag, queued, who) ==
    IF ~flag
    THEN /\ rafQueued' = queued
         /\ lastTick' = "none"
         /\ UNCHANGED <<currentX, currentY, hoverLeft, hoverTop, lerps, fixTicks>>
    ELSE /\ currentX' = Lerp(currentX, mouseX)
         /\ currentY' = Lerp(currentY, mouseY)
         /\ hoverLeft' = <<currentX'>>
         /\ hoverTop' = <<currentY'>>
         /\ rafQueued' = queued + 1
         /\ lerps' = lerps + 1
         /\ fixTicks' = fixTicks + 1
         /\ lastTick' = who

\* hoverImg.src = imgSrc: the value is converted to a string (null -> "null").
SrcString(imgSrc) == IF imgSrc = << >> THEN "null" ELSE imgSrc[1]

\* Mutant: the row's image is not assigned, the previous one stays.
EnterActivateStaleImage(imgSrc) ==
    /\ UNCHANGED hoverImgSrc
    /\ hoverActive' = TRUE
    /\ animating' = TRUE
    /\ animate(TRUE, rafQueued, "enter")

\* Body of `if (imgSrc) { ... }` in the mouseenter handler.
EnterActivate(imgSrc) ==
    /\ hoverImgSrc' = SrcString(imgSrc)
    /\ hoverActive' = TRUE
    /\ animating' = TRUE
    /\ animate(TRUE, rafQueued, "enter")

\* row.addEventListener('mouseenter', ...)
MouseEnter(row) ==
    /\ UNCHANGED <<magnetVars, siteVars, lastMove>>
    /\ hover = NoRow
    /\ tickFromX' = currentX /\ tickFromY' = currentY
    /\ rafRunning = 0
    /\ LET imgSrc == getAttributeDataImg(row) IN
       IF Truthy(imgSrc)
       THEN /\ lerps < MaxLerps
            /\ rafQueued < MaxPending
            /\ EnterActivate(imgSrc)
       ELSE /\ lastTick' = "none"
            /\ UNCHANGED <<hoverImgSrc, hoverActive, animating, currentX, currentY,
                           hoverLeft, hoverTop, rafQueued, lerps, fixTicks>>
    /\ hover' = row
    /\ UNCHANGED <<mouseX, mouseY, rafRunning, frameWrites, fixStartX, fixStartY>>

\* row.addEventListener('mousemove', ...)
MouseMove(row, clientX, clientY) ==
    /\ UNCHANGED <<magnetVars, siteVars>>
    /\ hover = row
    /\ tickFromX' = currentX /\ tickFromY' = currentY
    /\ rafRunning = 0
    /\ mouseX' = (clientX - OffsetX) * Scale
    /\ mouseY' = (clientY - OffsetY) * Scale
    /\ lastMove' = <<clientX, clientY>>
    /\ fixStartX' = currentX /\ fixStartY' = currentY /\ fixTicks' = 0
    /\ lastTick' = "none"
    /\ UNCHANGED <<currentX, currentY, animating, hoverImgSrc, hoverActive,
                   hoverLeft, hoverTop, hover, rafQueued, rafRunning, lerps,
                   frameWrites>>

\* Mutant: the element is hidden but the loop flag is left set.
LeaveHidesOnly ==
    /\ hoverActive' = FALSE
    /\ UNCHANGED animating

\* Body of the mouseleave handler.
LeaveDeactivate ==
    /\ hoverActive' = FALSE
    /\ animating' = FALSE

\* row.addEventListener('mouseleave', ...)
MouseLeave(row) ==
    /\ UNCHANGED <<magnetVars, siteVars, lastMove>>
    /\ hover = row
    /\ tickFromX' = currentX /\ tickFromY' = currentY
    /\ rafRunning = 0
    /\ LeaveDeactivate
    /\ hover' = NoRow
    /\ lastTick' = "none"
    /\ UNCHANGED <<mouseX, mouseY, currentX, currentY, hoverImgSrc, hoverLeft,
                   hoverTop, rafQueued, rafRunning, lerps, frameWrites,
                   fixStartX, fixStartY, fixTicks>>

\* The browser starts rendering a frame: the callbacks requested so far are
\* the ones this frame runs; requests made while they run wait for the next.
FrameStart ==
    /\ UNCHANGED <<magnetVars, siteVars, lastMove>>
    /\ rafRunning = 0
    /\ tickFromX' = currentX /\ tickFromY' = currentY
    /\ rafQueued > 0
    /\ animating => lerps + rafQueued <= MaxLerps
    /\ rafRunning' = rafQueued
    /\ rafQueued' = 0
    /\ frameWrites' = 0
    /\ lastTick' = "none"
    /\ UNCHANGED <<mouseX, mouseY, currentX, currentY, animating, hoverImgSrc,
                   hoverActive, hoverLeft, hoverTop, hover, lerps,
                   fixStartX, fixStartY, fixTicks>>

\* One requestAnimationFrame(animate) callback of the current frame runs.
FrameCallback ==
    /\ UNCHANGED <<magnetVars, siteVars, lastMove>>
    /\ rafRunning > 0
    /\ tickFromX' = currentX /\ tickFromY' = currentY
    /\ rafRunning' = rafRunning - 1
    /\ animate(animating, rafQueued, "frame")
    /\ frameWrites' = IF animating THEN frameWrites + 1 ELSE frameWrites
    /\ UNCHANGED <<mouseX, mouseY, animating, hoverImgSrc, hoverActive, hover,
                   fixStartX, fixStartY>>

NextFollower ==
    \/ \E row \in Rows : MouseEnter(row)
    \/ \E row \in Rows, clientX \in ClientXs, clientY \in ClientYs :
          MouseMove(row, clientX, clientY)
    \/ \E row \in Rows : MouseLeave(row)
    \/ FrameStart
    \/ FrameCallback

(***************************************************************************)
(* MagneticButton                                                          *)
(***************************************************************************)
\* this.strength = 40
strength == 40

\* The .magnetic elements of the document.
Magnets == {"btnA", "btnB"}
NoMagnet == "none"

\* Results of el.getBoundingClientRect(), read anew at every pointer-move (px).
Rects ==
    { [left |-> 0, top |-> 0, width |-> 200, height |-> 200],
      [left |-> 0, top |-> 0, width |-> 200, height |-> 50],
      [left |-> 0, top |-> 0, width |-> 150, height |-> 50] }

\* Pointer coordinates (px) drawn for mousemove events over a magnetic element.
PointerXs == {0, 50, 100, 150, 200}
PointerYs == {5, 25, 45, 100, 150}

RECURSIVE GCD(_, _)
GCD(a, b) == IF b = 0 THEN a ELSE GCD(b, a % b)

Sign(n) == IF n > 0 THEN 1 ELSE IF n < 0 THEN -1 ELSE 0

\* The rational n/d in lowest terms with a positive denominator, <<n, d>>.
\* A division by zero gives what the double division gives: <<1, 0>> is
\* Infinity, <<-1, 0>> is -Infinity and <<0, 0>> is NaN.
Frac(n, d) ==
    IF d = 0 THEN <<Sign(n), 0>>
    ELSE LET g == GCD(Abs(n), Abs(d))
             sgn == IF d < 0 THEN -1 ELSE 1
         IN <<sgn * (n \div g), sgn * (d \div g)>>

Finite(f) == f[2] # 0

Zero == <<0, 1>>

\* Mutant: the offset is taken from the element's edge, not from its center.
DisplacementFromEdge(pointer, start, size) ==
    Frac((pointer - start) * strength, size)

\* Mutant: the offset is not normalised by the element's dimension.
DisplacementUnnormalized(pointer, start, size) ==
    Frac((2 * pointer - (2 * start + size)) * strength, 2)

\* One axis of onMouseMove: center = start + size / 2; dist = pointer - center;
\* move = (dist / size) * strength.
Displacement(pointer, start, size) ==
    Frac((2 * pointer - (2 * start + size)) * strength, 2 * size)

EngageTransition ==
    [property |-> "transform", duration |-> "0.3s",
     easing |-> "cubic-bezier(.7, 0, .3, 1)"]
ReleaseTransition ==
    [property |-> "transform", duration |-> "0.7s",
     easing |-> "cubic-bezier(.7, 0, .3, 1)"]
NoTransition == [property |-> "", duration |-> "", easing |-> ""]

\* 'translate(0, 0)'
RestTransform == [x |-> Zero, y |-> Zero, unit |-> ""]
\* No inline transform.
NoTransform == [x |-> Zero, y |-> Zero, unit |-> "none"]

NoEvent == [type |-> "none", rect |-> [left |-> 0, top |-> 0, width |-> 0, height |-> 0],
            clientX |-> 0, clientY |-> 0]

\* constructor(el) and init() for every element of querySelectorAll('.magnetic')
InitMagnetic ==
    /\ transform = [el \in Magnets |-> NoTransform]
    /\ transition = [el \in Magnets |-> NoTransition]
    /\ magnetHover = NoMagnet
    /\ listening = [el \in Magnets |-> TRUE]
    /\ attached = [el \in Magnets |-> TRUE]
    /\ lastEvent = [el \in Magnets |-> NoEvent]
    /\ displaced = [el \in Magnets |-> FALSE]
    /\ destroyed = [el \in Magnets |-> FALSE]

\* `translate(${moveX}px, ${moveY}px)` for a pointer at (clientX, clientY)
\* over an element whose rectangle is rect.
translate(rect, clientX, clientY) ==
    [x |-> Displacement(clientX, rect.left, rect.width),
     y |-> Displacement(clientY, rect.top, rect.height),
     unit |-> "px"]

\* Mutant: once a translation is set, later values are dropped.
setTransformKeepsFirst(old, value) ==
    IF old.unit = "px" \/ ~(Finite(value.x) /\ Finite(value.y)) THEN old ELSE value

\* el.style.transform = value: a value with a component that is not a finite
\* number ('NaNpx', 'Infinitypx') is not a valid declaration and the style
\* keeps the value it had.
setTransform(old, value) ==
    IF Finite(value.x) /\ Finite(value.y) THEN value ELSE old

\* Mutant: a pointer-move sets the release transition.
onMouseMoveSlow(el, rect, clientX, clientY) ==
    /\ transform' = [transform EXCEPT ![el] =
           setTransform(@, translate(rect, clientX, clientY))]
    /\ transition' = [transition EXCEPT ![el] = ReleaseTransition]

\* Mutant: a pointer-move moves every magnetic element.
onMouseMoveAll(el, rect, clientX, clientY) ==
    /\ transform' = [m \in Magnets |->
           setTransform(transform[m], translate(rect, clientX, clientY))]
    /\ transition' = [transition EXCEPT ![el] = EngageTransition]

\* onMouseMove(e)
onMouseMove(el, rect, clientX, clientY) ==
    /\ transform' = [transform EXCEPT ![el] =
           setTransform(@, translate(rect, clientX, clientY))]
    /\ transition' = [transition EXCEPT ![el] = EngageTransition]

\* Mutant: the release transition is set but the translation is not reset.
onMouseLeaveKeepsTransform(el) ==
    /\ UNCHANGED transform
    /\ transition' = [transition EXCEPT ![el] = ReleaseTransition]

\* onMouseLeave()
onMouseLeave(el) ==
    /\ transform' = [transform EXCEPT ![el] = RestTransform]
    /\ transition' = [transition EXCEPT ![el] = ReleaseTransition]

\* The pointer is within the rectangle (its edges included).
Within(rect, clientX, clientY) ==
    /\ rect.left <= clientX /\ clientX <= rect.left + rect.width
    /\ rect.top <= clientY /\ clientY <= rect.top + rect.height

\* getBoundingClientRect() of an element that is not rendered.
DetachedRect == [left |-> 0, top |-> 0, width |-> 0, height |-> 0]

\* Mutant: destroy() does not remove the listeners.
destroyKeepsListeners(el) ==
    UNCHANGED listening

\* destroy()
destroy(el) ==
    listening' = [listening EXCEPT ![el] = FALSE]

\* A mousemove event is dispatched to el: the pointer is over el, inside the
\* rectangle el has at that moment.  The handler runs if it is still attached.
MagnetMouseMove(el, rect, clientX, clientY) ==
    /\ UNCHANGED <<followerVars, siteVars>>
    /\ attached[el]
    /\ magnetHover \in {NoMagnet, el}
    /\ Within(rect, clientX, clientY)
    /\ magnetHover' = el
    /\ UNCHANGED <<listening, attached, destroyed>>
    /\ IF listening[el]
       THEN /\ onMouseMove(el, rect, clientX, clientY)
            /\ lastEvent' = [lastEvent EXCEPT ![el] =
                   [type |-> "move", rect |-> rect,
                    clientX |-> clientX, clientY |-> clientY]]
            /\ displaced' = [displaced EXCEPT ![el] =
                   @ \/ transform'[el].x # Zero \/ transform'[el].y # Zero]
       ELSE UNCHANGED <<transform, transition, lastEvent, displaced>>

\* A mouseleave event is dispatched to el: the pointer was over el.
MagnetMouseLeave(el) ==
    /\ UNCHANGED <<followerVars, siteVars>>
    /\ magnetHover = el
    /\ magnetHover' = NoMagnet
    /\ UNCHANGED <<listening, attached, displaced, destroyed>>
    /\ IF listening[el]
       THEN /\ onMouseLeave(el)
            /\ lastEvent' = [lastEvent EXCEPT ![el] = [NoEvent EXCEPT !.type = "leave"]]
       ELSE UNCHANGED <<transform, transition, lastEvent>>

\* A mousemove event is dispatched (dispatchEvent) to el after el was removed
\* from the document: its rectangle is DetachedRect.
MagnetMouseMoveDetached(el, clientX, clientY) ==
    /\ UNCHANGED <<followerVars, siteVars>>
    /\ ~attached[el]
    /\ UNCHANGED <<listening, attached, magnetHover, displaced, destroyed>>
    /\ IF listening[el]
       THEN /\ onMouseMove(el, DetachedRect, clientX, clientY)
            /\ lastEvent' = [lastEvent EXCEPT ![el] =
                   [type |-> "moveDetached", rect |-> DetachedRect,
                    clientX |-> clientX, clientY |-> clientY]]
       ELSE UNCHANGED <<transform, transition, lastEvent>>

\* el is removed from the document; the pointer is no longer over it.
MagnetDetach(el) ==
    /\ UNCHANGED <<followerVars, siteVars>>
    /\ attached[el]
    /\ attached' = [attached EXCEPT ![el] = FALSE]
    /\ magnetHover' = IF magnetHover = el THEN NoMagnet ELSE magnetHover
    /\ UNCHANGED <<transform, transition, listening, lastEvent, displaced, destroyed>>

\* The page calls destroy() on the controller of el.
MagnetDestroy(el) ==
    /\ UNCHANGED <<followerVars, siteVars>>
    /\ destroy(el)
    /\ destroyed' = [destroyed EXCEPT ![el] = TRUE]
    /\ UNCHANGED <<transform, transition, attached, magnetHover, lastEvent, displaced>>

NextMagnetic ==
    \/ \E el \in Magnets, rect \in Rects, clientX \in PointerXs, clientY \in PointerYs :
          MagnetMouseMove(el, rect, clientX, clientY)
    \/ \E el \in Magnets : MagnetMouseLeave(el)

\* Inputs of the life cycle of a controller: one rectangle, pointer positions
\* at and off its center, and the coordinates given to events dispatched to a
\* detached element.
LifeRects == { [left |-> 0, top |-> 0, width |-> 200, height |-> 200] }
LifeXs == {100, 150}
LifeYs == {100, 150}
DetachedXs == {0, 150}
DetachedYs == {0, 100}

NextLifecycle ==
    \/ \E el \in Magnets, rect \in LifeRects, clientX \in LifeXs, clientY \in LifeYs :
          MagnetMouseMove(el, rect, clientX, clientY)
    \/ \E el \in Magnets : MagnetMouseLeave(el)
    \/ \E el \in Magnets, clientX \in DetachedXs, clientY \in DetachedYs :
          MagnetMouseMoveDetached(el, clientX, clientY)
    \/ \E el \in Magnets : MagnetDetach(el)
    \/ \E el \in Magnets : MagnetDestroy(el)

(***************************************************************************)
(* DOMContentLoaded handler, initLoader                                    *)
(***************************************************************************)
\* The elements the init functions look up; "workRows" stands for the
\* .work-row elements (absent: querySelectorAll gives an empty list).
Elements == {"pageLoader", "marquee", "btnHamburger", "fixedNav",
             "fixedNavOverlay", "workTilesGrid", "workHoverImage",
             "workHoverImg", "workRows", "localTime"}

\* The scripts main.js uses without checking: gsap, its ScrollTrigger plugin,
\* and magnetic.js (window.initMagnetic).
Scripts == {"gsap", "ScrollTrigger", "magnetic"}

\* The calls of the DOMContentLoaded handler, in order.
InitSteps == <<"initLoader", "initMagnetic", "initMarquee", "initHamburgerMenu",
               "initWorkTiles", "initScrollAnimations", "initWorkHover",
               "initLocalTime", "initHamburgerVisibility", "initSmoothScroll">>
NoStep == "none"

\* Outcomes of one init step: it returned early, it threw (a ReferenceError
\* for a script that is not loaded), or it ran and registered things.
Skipped == [throws |-> FALSE, registers |-> {}]
Threw == [throws |-> TRUE, registers |-> {}]
Ran(things) == [throws |-> FALSE, registers |-> things]

\* Mutant: dismissLoader does not look at the 'loaded' class.
dismissLoaderUnguarded ==
    IF "pageLoader" \notin present THEN {} ELSE {"timeout:loader"}

\* dismissLoader(): the timeouts it schedules.
dismissLoader ==
    IF "pageLoader" \notin present \/ loaderLoaded THEN {} ELSE {"timeout:loader"}

initLoader ==
    IF readyState = "complete"
    THEN Ran(dismissLoader)
    ELSE Ran({"load:dismissLoader"})

initMagnetic ==
    IF "magnetic" \notin scripts THEN Threw
    ELSE Ran({"mousemove:magnetic", "mouseleave:magnetic"})

initMarquee ==
    IF "marquee" \notin present THEN Skipped
    ELSE IF "gsap" \notin scripts THEN Threw
    ELSE Ran({"tween:marquee", "scroll:marquee"})

initHamburgerMenu ==
    IF {"btnHamburger", "fixedNav", "fixedNavOverlay"} \subseteq present
    THEN Ran({"click:btnHamburger", "click:fixedNavOverlay", "click:navLinks"})
    ELSE Skipped

initWorkTiles ==
    IF "workTilesGrid" \notin present THEN Skipped
    ELSE Ran({"tiles:workTilesGrid"})

initScrollAnimations ==
    IF {"gsap", "ScrollTrigger"} \subseteq scripts
    THEN Ran({"trigger:reveal", "tween:heroImage"})
    ELSE Threw

initWorkHover ==
    IF {"workHoverImage", "workHoverImg", "workRows"} \subseteq present
    THEN Ran({"mouseenter:workRows", "mousemove:workRows", "mouseleave:workRows"})
    ELSE Skipped

\* Mutant: the clock is started without looking for its element.
initLocalTimeUnguarded ==
    IF "localTime" \notin present THEN Threw
    ELSE Ran({"interval:localTime"})

initLocalTime ==
    IF "localTime" \notin present THEN Skipped
    ELSE Ran({"interval:localTime"})

initHamburgerVisibility ==
    IF "btnHamburger" \notin present THEN Skipped
    ELSE IF "ScrollTrigger" \notin scripts THEN Threw
    ELSE Ran({"trigger:btnHamburger"})

initSmoothScroll == Ran({"click:anchors"})

StepResult(step) ==
    CASE step = "initLoader" -> initLoader
      [] step = "initMagnetic" -> initMagnetic
      [] step = "initMarquee" -> initMarquee
      [] step = "initHamburgerMenu" -> initHamburgerMenu
      [] step = "initWorkTiles" -> initWorkTiles
      [] step = "initScrollAnimations" -> initScrollAnimations
      [] step = "initWorkHover" -> initWorkHover
      [] step = "initLocalTime" -> initLocalTime
      [] step = "initHamburgerVisibility" -> initHamburgerVisibility
      [] step = "initSmoothScroll" -> initSmoothScroll

\* The handler's body from its i-th call on: the calls run one after the
\* other and an exception ends the handler.
RECURSIVE RunFrom(_)
RunFrom(i) ==
    IF i > Len(InitSteps)
    THEN [completed |-> {}, thrown |-> NoStep, registers |-> {}]
    ELSE LET r == StepResult(InitSteps[i]) IN
         IF r.throws
         THEN [completed |-> {}, thrown |-> InitSteps[i], registers |-> {}]
         ELSE LET rest == RunFrom(i + 1) IN
              [completed |-> {InitSteps[i]} \cup rest.completed,
               thrown |-> rest.thrown,
               registers |-> r.registers \cup rest.registers]

\* The state of the page before DOMContentLoaded, for a given document.
PageBeforeReady ==
    /\ domReady = FALSE
    /\ completed = {}
    /\ thrown = NoStep
    /\ registered = {}
    /\ loaderTimers = 0
    /\ heroTimers = 0
    /\ dismissedBy = "none"
    /\ dismissCalls = 0
    /\ heroStarts = 0

\* The page as the repository's markup has it: every element and every script.
InitPage ==
    /\ present = Elements
    /\ scripts = Scripts
    /\ readyState = "interactive"
    /\ loaderLoaded = FALSE
    /\ PageBeforeReady

\* Any document: some elements missing, some scripts not loaded, the handler
\* running before or after the page has loaded, the loader already 'loaded'.
InitAnyPage ==
    /\ present \in SUBSET Elements
    /\ scripts \in SUBSET Scripts
    /\ readyState \in {"interactive", "complete"}
    /\ loaderLoaded \in BOOLEAN
    /\ loaderLoaded => "pageLoader" \in present
    /\ PageBeforeReady

\* document.addEventListener('DOMContentLoaded', () => { ... })
DOMContentLoaded ==
    /\ UNCHANGED <<followerVars, magnetVars, marqueeVars, navVars>>
    /\ ~domReady
    /\ domReady' = TRUE
    /\ LET run == RunFrom(1) IN
       /\ completed' = run.completed
       /\ thrown' = run.thrown
       /\ registered' = run.registers
       /\ loaderTimers' = IF "timeout:loader" \in run.registers THEN 1 ELSE 0
    /\ dismissedBy' = IF readyState = "complete" THEN "immediate" ELSE "none"
    /\ dismissCalls' = IF readyState = "complete" THEN 1 ELSE 0
    /\ UNCHANGED <<present, scripts, readyState, loaderLoaded, heroTimers, heroStarts>>

\* The window's load event: the document is complete and the load listeners run.
WindowLoad ==
    /\ UNCHANGED <<followerVars, magnetVars, marqueeVars, navVars>>
    /\ domReady
    /\ readyState # "complete"
    /\ readyState' = "complete"
    /\ IF "load:dismissLoader" \in registered
       THEN /\ loaderTimers' = loaderTimers + Cardinality(dismissLoader)
            /\ dismissedBy' = "load"
            /\ dismissCalls' = dismissCalls + 1
       ELSE UNCHANGED <<loaderTimers, dismissedBy, dismissCalls>>
    /\ UNCHANGED <<present, scripts, loaderLoaded, domReady, completed, thrown,
                   registered, heroTimers, heroStarts>>

\* The 800 ms timeout of dismissLoader fires.
LoaderTimeout ==
    /\ UNCHANGED <<followerVars, magnetVars, marqueeVars, navVars>>
    /\ loaderTimers > 0
    /\ loaderTimers' = loaderTimers - 1
    /\ loaderLoaded' = TRUE
    /\ heroTimers' = heroTimers + 1
    /\ UNCHANGED <<present, scripts, readyState, domReady, completed, thrown,
                   registered, dismissedBy, dismissCalls, heroStarts>>

\* The 400 ms timeout fires: animateHeroEntry() builds a gsap timeline.
HeroTimeout ==
    /\ UNCHANGED <<followerVars, magnetVars, marqueeVars, navVars>>
    /\ heroTimers > 0
    /\ heroTimers' = heroTimers - 1
    /\ heroStarts' = IF "gsap" \in scripts THEN heroStarts + 1 ELSE heroStarts
    /\ UNCHANGED <<present, scripts, readyState, loaderLoaded, domReady, completed,
                   thrown, registered, loaderTimers, dismissedBy, dismissCalls>>

NextPage ==
    \/ DOMContentLoaded
    \/ WindowLoad
    \/ LoaderTimeout
    \/ HeroTimeout

(***************************************************************************)
(* initMarquee: scroll listener                                            *)
(***************************************************************************)
\* setTimeout(() => { scrollSpeed = 1; }, 300): the delay in ms.
BoostDelay == 300

\* At most this many timeouts of the scroll listener are pending at once.
MaxScrollTimers == 3

\* The amounts of time (ms) that pass between two events.
TimeSteps == {50, 100}

Min(a, b) == IF a <= b THEN a ELSE b

\* Numbers are binary floating-point values with a significand of
\* MantissaBits bits, as the doubles are with 53: a number is an integer count
\* of the finest step, exact while it fits the significand and rounded to the
\* nearest value that does (ties to the even significand) when it does not.
MantissaBits == 3

\* Widths go up to 2^MaxExponent steps and raw positions to twice that.
MaxExponent == 5

\* The spacing of the floating-point values at magnitude a.
RECURSIVE UlpOf(_)
UlpOf(a) == IF a < Pow(2, MantissaBits) THEN 1 ELSE 2 * UlpOf(a \div 2)

Representable(n) == Abs(n) % UlpOf(Abs(n)) = 0

\* The result of an arithmetic operation whose exact value is n.
RoundToFloat(n) ==
    LET a == Abs(n)
        u == UlpOf(a)
        lo == (a \div u) * u
        r == a - lo
        nearest == IF 2 * r < u THEN lo
                   ELSE IF 2 * r > u THEN lo + u
                   ELSE IF (lo \div u) % 2 = 0 THEN lo ELSE lo + u
    IN Sign(n) * nearest

\* a % b of JavaScript for b > 0: the remainder has the sign of a; it is
\* always exact.
JsRemainder(a, b) == Sign(a) * (Abs(a) % b)

\* The values singleSetWidth and the raw x are drawn from.
Widths == {n \in 1..Pow(2, MaxExponent) : Representable(n)}
RawXs == {n \in (0 - 2 * Pow(2, MaxExponent))..(2 * Pow(2, MaxExponent)) :
             Representable(n)}

Px(n) == [n |-> n, unit |-> "px"]

\* parseFloat(x) of a value with a unit.
parseFloat(x) == x.n

\* Mutant: the remainder is returned as it is.
modifierKeepsSign(x, width) ==
    JsRemainder(parseFloat(x), width)

\* x => { const mod = parseFloat(x) % singleSetWidth;
\*        return mod > 0 ? mod - singleSetWidth : mod; }
modifier(x, width) ==
    LET mod == JsRemainder(parseFloat(x), width)
    IN IF mod > 0 THEN RoundToFloat(mod - width) ELSE mod

\* gsap.utils.unitize(func): func of the number, with the value's unit.
unitize(x, width) == [n |-> modifier(x, width), unit |-> x.unit]

\* The scroll listener's state after initMarquee: scrollSpeed is 1, the tween
\* runs at its own rate, no timeout is pending, no scroll event was seen.
ScrollAtRest ==
    /\ scrollSpeed = 1
    /\ marqueeTimeScale = 1
    /\ scrollTimers = << >>
    /\ sinceScroll = BoostDelay

\* gsap.set(marquee, { x: 0 })
TweenAtStart ==
    /\ tweenX = Px(0)
    /\ marqueeX = Px(0)

\* After initMarquee, for a marquee whose set of spans is 2^MaxExponent wide.
InitMarquee ==
    /\ ScrollAtRest
    /\ singleSetWidth = Pow(2, MaxExponent)
    /\ TweenAtStart

\* window.addEventListener('scroll', () => { ... })
onScroll ==
    /\ scrollSpeed' = 2
    /\ scrollTimers' = Append(scrollTimers, BoostDelay)
    /\ UNCHANGED marqueeTimeScale

\* A scroll event is dispatched to the window.
Scroll ==
    /\ UNCHANGED <<followerVars, magnetVars, pageVars, navVars>>
    /\ Len(scrollTimers) < MaxScrollTimers
    /\ onScroll
    /\ sinceScroll' = 0
    /\ UNCHANGED tweenVars

\* The earliest pending timeout is due: () => { scrollSpeed = 1; }
ScrollTimeout ==
    /\ UNCHANGED <<followerVars, magnetVars, pageVars, navVars>>
    /\ scrollTimers # << >>
    /\ Head(scrollTimers) = 0
    /\ scrollSpeed' = 1
    /\ scrollTimers' = Tail(scrollTimers)
    /\ UNCHANGED <<marqueeTimeScale, sinceScroll, tweenVars>>

\* dt ms pass with no event; no pending timeout is overdue.
TimePasses(dt) ==
    /\ UNCHANGED <<followerVars, magnetVars, pageVars, navVars>>
    /\ \A i \in DOMAIN scrollTimers : scrollTimers[i] >= dt
    /\ scrollTimers # << >> \/ sinceScroll < BoostDelay
    /\ scrollTimers' = [i \in DOMAIN scrollTimers |-> scrollTimers[i] - dt]
    /\ sinceScroll' = Min(sinceScroll + dt, BoostDelay)
    /\ UNCHANGED <<scrollSpeed, marqueeTimeScale, tweenVars>>

\* The tween renders: it computes the raw x and applies what the modifier
\* makes of it.
TweenUpdate(x) ==
    /\ UNCHANGED <<followerVars, magnetVars, pageVars, navVars>>
    /\ tweenX' = Px(x)
    /\ marqueeX' = unitize(Px(x), singleSetWidth)
    /\ UNCHANGED <<scrollSpeed, marqueeTimeScale, scrollTimers, sinceScroll,
                   singleSetWidth>>

NextModifier == \E x \in RawXs : TweenUpdate(x)

NextMarquee ==
    \/ Scroll
    \/ ScrollTimeout
    \/ \E dt \in TimeSteps : TimePasses(dt)

(***************************************************************************)
(* initHamburgerMenu                                                       *)
(***************************************************************************)
\* At most this many clicks are handled.
MaxClicks == 8

NoClick == [target |-> "none", wasActive |-> FALSE, animated |-> FALSE]

\* After initHamburgerMenu: the panel is closed, no tween runs.
InitNav ==
    /\ navActive = FALSE
    /\ overlayActive = FALSE
    /\ linkTweens = 0
    /\ navClicks = 0
    /\ lastClick = NoClick

\* Mutant: the overlay's class is not toggled with the panel's.
toggleMenuNavOnly(target) ==
    LET isActive == navActive IN
    /\ navActive' = ~navActive
    /\ overlayActive' = overlayActive
    /\ linkTweens' = IF ~isActive /\ "gsap" \in scripts
                       THEN linkTweens + 1 ELSE linkTweens
    /\ lastClick' = [target |-> target, wasActive |-> isActive,
                     animated |-> ~isActive /\ "gsap" \in scripts]

\* toggleMenu(), as the click listener of target; the two gsap.from calls of
\* an opening click count as one entry animation.
toggleMenu(target) ==
    LET isActive == navActive IN
    /\ navActive' = ~navActive
    /\ overlayActive' = ~overlayActive
    /\ linkTweens' = IF ~isActive /\ "gsap" \in scripts
                       THEN linkTweens + 1 ELSE linkTweens
    /\ lastClick' = [target |-> target, wasActive |-> isActive,
                     animated |-> ~isActive /\ "gsap" \in scripts]

\* A click on the hamburger button or on the overlay.
ClickToggle(target) ==
    /\ UNCHANGED <<followerVars, magnetVars, pageVars, marqueeVars>>
    /\ navClicks < MaxClicks
    /\ navClicks' = navClicks + 1
    /\ toggleMenu(target)

\* A click on a link of the panel.
ClickNavLink ==
    /\ UNCHANGED <<followerVars, magnetVars, pageVars, marqueeVars>>
    /\ navClicks < MaxClicks
    /\ navClicks' = navClicks + 1
    /\ navActive' = FALSE
    /\ overlayActive' = FALSE
    /\ lastClick' = [target |-> "navLink", wasActive |-> navActive, animated |-> FALSE]
    /\ UNCHANGED linkTweens

\* An entry animation of the links has run to its end.
TweenComplete ==
    /\ UNCHANGED <<followerVars, magnetVars, pageVars, marqueeVars>>
    /\ linkTweens > 0
    /\ linkTweens' = linkTweens - 1
    /\ UNCHANGED <<navActive, overlayActive, navClicks, lastClick>>

NextNav ==
    \/ \E target \in {"btnHamburger", "fixedNavOverlay"} : ClickToggle(target)
    \/ ClickNavLink
    \/ TweenComplete

\* The pointer handlers of both controllers, without the frames in between,
\* for the pointer positions of the life cycle.
NextPointer ==
    \/ \E row \in Rows : MouseEnter(row)
    \/ \E row \in Rows, clientX \in ClientXs, clientY \in ClientYs :
          MouseMove(row, clientX, clientY)
    \/ \E row \in Rows : MouseLeave(row)
    \/ \E el \in Magnets, rect \in LifeRects, clientX \in LifeXs, clientY \in LifeYs :
          MagnetMouseMove(el, rect, clientX, clientY)
    \/ \E el \in Magnets : MagnetMouseLeave(el)

InitElsewhere == InitFollower /\ InitMagnetic /\ InitMarquee /\ InitNav

Init == InitElsewhere /\ InitPage

Next ==
    \/ NextFollower \/ NextMagnetic \/ NextLifecycle
    \/ NextPage \/ NextMarquee \/ NextNav \/ NextModifier

Spec == Init /\ [][Next]_vars

InitAnyDocument == InitElsewhere /\ InitAnyPage

SpecPage == InitAnyDocument /\ [][NextPage]_vars

SpecMarquee == Init /\ [][NextMarquee]_vars

\* Any marquee: a set of spans of any positive width.
InitAnyMarquee ==
    /\ InitFollower /\ InitMagnetic /\ InitNav /\ InitPage
    /\ ScrollAtRest
    /\ singleSetWidth \in Widths
    /\ TweenAtStart

SpecModifier == InitAnyMarquee /\ [][NextModifier]_vars

SpecNav == Init /\ [][NextNav]_vars

SpecFollower == Init /\ [][NextFollower]_vars

SpecMagnetic == Init /\ [][NextMagnetic]_vars

SpecLifecycle == Init /\ [][NextLifecycle]_vars

SpecPointer == Init /\ [][NextPointer]_vars

(***************************************************************************)
(* Image follower: properties                                             *)
(***************************************************************************)
Idle == ~animating
Active == animating

\* A step in which a requestAnimationFrame callback ran.
CallbackStep == rafRunning' = rafRunning - 1
\* A step in which the pointer entered row / left a row.
EnterStep == hover = NoRow /\ hover' # NoRow
LeaveStep == hover # NoRow /\ hover' = NoRow
HasImage(row) == Truthy(getAttributeDataImg(row))

\* Supporting fact for C1: while the loop flag is clear, a frame callback
\* writes no position and requests no further frame.
IdleCallbackHasNoEffect ==
    [][(Idle /\ CallbackStep) =>
          /\ UNCHANGED <<currentX, currentY, hoverLeft, hoverTop>>
          /\ rafQueued' = rafQueued]_vars

\* C1: after a mouseleave (loop flag clear), no frame callback writes the
\* follower's left/top or requests another frame, and at most the one
\* callback that was already pending fires.
C1_DeactivationStopsUpdates ==
    [][/\ (Idle /\ CallbackStep) =>
             /\ UNCHANGED <<currentX, currentY, hoverLeft, hoverTop>>
             /\ rafQueued' = rafQueued
       /\ (LeaveStep => rafQueued' + rafRunning' <= 1)]_vars

\* C2: at most one callback of the loop is pending at any time, and the
\* follower position is written at most once per frame.
C2_OneUpdatePerFrame ==
    /\ rafQueued + rafRunning <= 1
    /\ frameWrites <= 1

\* C3 (as claimed): visible iff animating; every mouseenter takes Idle to
\* Active, mouseleave takes Active to Idle, frame ticks and pointer-moves
\* keep the state.
C3_AsClaimed ==
    [][/\ (hoverActive <=> animating) /\ (hoverActive' <=> animating')
       /\ (EnterStep => Idle /\ Active')
       /\ (LeaveStep => Idle')
       /\ (hover' = hover => animating' = animating)]_vars

\* C3 (amended): visible iff animating; mouseenter on a row with a non-empty
\* data-img takes Idle to Active, mouseenter on a row without one leaves the
\* follower Idle; mouseleave ends Idle; frame ticks and pointer-moves keep
\* the state.
C3_TwoStates ==
    [][/\ (hoverActive <=> animating) /\ (hoverActive' <=> animating')
       /\ (EnterStep /\ HasImage(hover') => Idle /\ Active')
       /\ (EnterStep /\ ~HasImage(hover') => Idle /\ Idle')
       /\ (LeaveStep => Idle')
       /\ (hover' = hover => animating' = animating)]_vars

\* C3 witness: the follower is Active again on a second row, after frames ran.
C3_Witness ==
    /\ hover = "rowB" /\ animating /\ hoverActive
    /\ hoverImgSrc = "b.jpg" /\ hoverLeft # << >> /\ frameWrites > 0

\* C4 (as claimed): right after a mouseenter on any row the element is
\* visible, shows that row's data-img, and the loop runs with a frame requested.
C4_AsClaimed ==
    [][EnterStep =>
          /\ hoverActive'
          /\ <<hoverImgSrc'>> = getAttributeDataImg(hover')
          /\ animating' /\ rafQueued' >= 1]_vars

\* C4 (amended): right after a mouseenter on a row with a non-empty data-img
\* the element is visible, shows that row's data-img, and the loop runs with
\* a frame requested.
C4_Activation ==
    [][(EnterStep /\ HasImage(hover')) =>
          /\ hoverActive'
          /\ <<hoverImgSrc'>> = getAttributeDataImg(hover')
          /\ animating' /\ rafQueued' = rafQueued + 1]_vars

\* C4 witness: a second row was entered after leaving a first, with the first
\* loop's callback still pending.
C4_Witness ==
    /\ hover = "rowB" /\ hoverImgSrc = "b.jpg" /\ hoverActive /\ animating
    /\ lastTick = "enter" /\ lerps = 2 /\ rafQueued = 2

\* C5: entering a row without a data-img attribute leaves the image source
\* (and the rest of the follower) as it was, and the handler completes in
\* every state in which the pointer can enter a row.
C5_NoAttributeNoUpdate ==
    [][/\ (EnterStep /\ getAttributeDataImg(hover') = << >>) =>
             UNCHANGED <<hoverImgSrc, hoverActive, animating, currentX, currentY,
                         hoverLeft, hoverTop, rafQueued>>
       /\ (hover = NoRow /\ rafRunning = 0) => ENABLED MouseEnter("rowNoAttr")]_vars

\* C5 witness: the attribute-less row is entered while an earlier row's image
\* is still the source and that row's callback is still pending.
C5_Witness ==
    /\ hover = "rowNoAttr" /\ hoverImgSrc = "a.jpg" /\ rafQueued = 1 /\ ~hoverActive

(***************************************************************************)
(* Exact comparison of squared distances.  The squares exceed TLC's        *)
(* integers, so they are computed on little-endian digit sequences in      *)
(* base BigBase (<< >> is zero, the last digit is never zero).             *)
(***************************************************************************)
BigBase == Pow(10, 4)

RECURSIVE BigOf(_)
BigOf(n) == IF n = 0 THEN << >> ELSE <<n % BigBase>> \o BigOf(n \div BigBase)

RECURSIVE BigAddCarry(_, _, _)
BigAddCarry(a, b, carry) ==
    IF a = << >> /\ b = << >>
    THEN IF carry = 0 THEN << >> ELSE <<carry>>
    ELSE LET x == (IF a = << >> THEN 0 ELSE Head(a))
                  + (IF b = << >> THEN 0 ELSE Head(b)) + carry
         IN <<x % BigBase>> \o BigAddCarry(IF a = << >> THEN << >> ELSE Tail(a),
                                           IF b = << >> THEN << >> ELSE Tail(b),
                                           x \div BigBase)

BigAdd(a, b) == BigAddCarry(a, b, 0)

RECURSIVE BigTimesDigit(_, _, _)
BigTimesDigit(a, k, carry) ==
    IF a = << >>
    THEN IF carry = 0 THEN << >> ELSE <<carry>>
    ELSE LET x == Head(a) * k + carry
         IN <<x % BigBase>> \o BigTimesDigit(Tail(a), k, x \div BigBase)

BigShift(a) == IF a = << >> THEN << >> ELSE <<0>> \o a

RECURSIVE BigMul(_, _)
BigMul(a, b) ==
    IF b = << >> THEN << >>
    ELSE BigAdd(IF Head(b) = 0 THEN << >> ELSE BigTimesDigit(a, Head(b), 0),
                BigShift(BigMul(a, Tail(b))))

RECURSIVE BigPow(_, _)
BigPow(b, n) == IF n = 0 THEN <<1>> ELSE BigMul(BigOf(b), BigPow(b, n - 1))

RECURSIVE BigCmpFrom(_, _, _)
BigCmpFrom(a, b, i) ==
    IF i = 0 THEN 0
    ELSE IF a[i] < b[i] THEN -1
    ELSE IF a[i] > b[i] THEN 1
    ELSE BigCmpFrom(a, b, i - 1)

\* -1, 0 or 1 as a < b, a = b or a > b
BigCmp(a, b) ==
    IF Len(a) < Len(b) THEN -1
    ELSE IF Len(a) > Len(b) THEN 1
    ELSE BigCmpFrom(a, b, Len(a))

BigSquare(n) == BigMul(BigOf(Abs(n)), BigOf(Abs(n)))

\* Squared Euclidean distance between (x, y) and (tx, ty), in units squared.
DistSq(x, y, tx, ty) == BigAdd(BigSquare(x - tx), BigSquare(y - ty))

(***************************************************************************)
(* Image follower: the smoothing step                                      *)
(***************************************************************************)
\* A step in which animate() moved the follower (a frame tick of the active
\* follower, or the call made by the mouseenter handler).
TickStep == lerps' = lerps + 1

DistToTarget == DistSq(currentX, currentY, mouseX, mouseY)

\* After fixTicks steps towards a target fixed since the position was
\* (fixStartX, fixStartY): distance <= (1 - 0.1)^fixTicks * initial distance,
\* stated on the squares: 10^(2n) * d_n^2 <= 9^(2n) * d_0^2.
WithinDecayBound ==
    BigCmp(BigMul(BigPow(SmoothingInverse, 2 * fixTicks), DistToTarget),
           BigMul(BigPow(SmoothingInverse - 1, 2 * fixTicks),
                  DistSq(fixStartX, fixStartY, mouseX, mouseY))) <= 0

\* The latest step was a smoothing step (a frame tick of the active follower,
\* or the call of animate() made by the mouseenter handler).
Ticked == lastTick # "none"

DistBeforeTick == DistSq(tickFromX, tickFromY, mouseX, mouseY)

Between(a, x, b) == (a <= x /\ x <= b) \/ (b <= x /\ x <= a)

\* C7: a tick sets each axis to current + (target - current) * 0.1 and writes
\* it as left/top, never passing the target on either axis; from (0,0) with
\* target (300,200) the position is (30,20) after one tick, (57,38) after two.
C7_LerpStep ==
    [][TickStep =>
          /\ SmoothingInverse * (currentX' - currentX) = mouseX - currentX
          /\ SmoothingInverse * (currentY' - currentY) = mouseY - currentY
          /\ hoverLeft' = <<currentX'>> /\ hoverTop' = <<currentY'>>
          /\ Between(currentX, currentX', mouseX)
          /\ Between(currentY, currentY', mouseY)
          /\ (/\ fixStartX = 0 /\ fixStartY = 0
              /\ mouseX = 300 * Scale /\ mouseY = 200 * Scale) =>
                /\ fixTicks' = 1 => currentX' = 30 * Scale /\ currentY' = 20 * Scale
                /\ fixTicks' = 2 => currentX' = 57 * Scale /\ currentY' = 38 * Scale]_vars

\* C7 witness: the second tick from (0,0) towards (300,200) has been taken.
C7_Witness ==
    /\ fixStartX = 0 /\ fixStartY = 0 /\ fixTicks = 2
    /\ mouseX = 300 * Scale /\ mouseY = 200 * Scale
    /\ currentX = 57 * Scale /\ currentY = 38 * Scale
    /\ hoverLeft = <<57 * Scale>> /\ hoverTop = <<38 * Scale>>

\* Every smoothing step divides exactly: positions stay whole units.
ExactArithmetic ==
    lerps < MaxLerps =>
        /\ (mouseX - currentX) % SmoothingInverse = 0
        /\ (mouseY - currentY) % SmoothingInverse = 0

(***************************************************************************)
(* MagneticButton: properties                                              *)
(***************************************************************************)
\* Order of two non-negative rationals <<n, d>>: -1, 0 or 1.
FracCmp(a, b) ==
    BigCmp(BigMul(BigOf(a[1]), BigOf(b[2])), BigMul(BigOf(b[1]), BigOf(a[2])))

\* Squared magnitude of a translation, a rational.
MagSq(t) ==
    Frac(t.x[1] * t.x[1] * t.y[2] * t.y[2] + t.y[1] * t.y[1] * t.x[2] * t.x[2],
         t.x[2] * t.x[2] * t.y[2] * t.y[2])

\* Twice the pointer's offset from the center of rect, per axis.
OffX2(rect, clientX) == 2 * clientX - (2 * rect.left + rect.width)
OffY2(rect, clientY) == 2 * clientY - (2 * rect.top + rect.height)

\* Four times the squared distance of the pointer from the center of rect.
CenterDistSq4(rect, clientX, clientY) ==
    OffX2(rect, clientX) * OffX2(rect, clientX)
    + OffY2(rect, clientY) * OffY2(rect, clientY)

StrictlyInside(rect, clientX, clientY) ==
    /\ rect.left < clientX /\ clientX < rect.left + rect.width
    /\ rect.top < clientY /\ clientY < rect.top + rect.height

\* The latest event handled for el was a pointer-move strictly inside its bounds.
MovedInside(el) ==
    /\ lastEvent[el].type = "move"
    /\ StrictlyInside(lastEvent[el].rect, lastEvent[el].clientX, lastEvent[el].clientY)

\* The translation never exceeds the strength, and is zero at the center.
BoundedAndCentered(el) ==
    LET ev == lastEvent[el] IN
    /\ FracCmp(MagSq(transform[el]), <<strength * strength, 1>>) <= 0
    /\ CenterDistSq4(ev.rect, ev.clientX, ev.clientY) = 0 =>
          transform[el].x = Zero /\ transform[el].y = Zero

\* C8 (as claimed): inside an element of any width and height, the magnitude
\* of the translation grows with the pointer's distance from the center, never
\* exceeds the strength, and is zero at the exact center.
C8_AsClaimed ==
    \A el \in Magnets : MovedInside(el) =>
        LET ev == lastEvent[el] IN
        /\ \A qx \in PointerXs, qy \in PointerYs :
              (/\ StrictlyInside(ev.rect, qx, qy)
               /\ CenterDistSq4(ev.rect, qx, qy)
                     >= CenterDistSq4(ev.rect, ev.clientX, ev.clientY)) =>
                 FracCmp(MagSq(translate(ev.rect, qx, qy)), MagSq(transform[el])) >= 0
        /\ BoundedAndCentered(el)

\* C8 (amended): the magnitude of the translation grows with the pointer's
\* offset from the center along each axis (it does not shrink when neither
\* |dx| nor |dy| shrinks, and grows when one of them grows), and with the
\* distance from the center when the element is square; it never exceeds the
\* strength, and is zero at the exact center.
C8_Monotone ==
    \A el \in Magnets : MovedInside(el) =>
        LET ev == lastEvent[el]
            px == Abs(OffX2(ev.rect, ev.clientX))
            py == Abs(OffY2(ev.rect, ev.clientY))
        IN
        /\ \A qx \in PointerXs, qy \in PointerYs : StrictlyInside(ev.rect, qx, qy) =>
              LET ax == Abs(OffX2(ev.rect, qx))
                  ay == Abs(OffY2(ev.rect, qy))
                  order == FracCmp(MagSq(translate(ev.rect, qx, qy)),
                                   MagSq(transform[el]))
              IN
              /\ (ax >= px /\ ay >= py) => order >= 0
              /\ (ax >= px /\ ay >= py /\ (ax > px \/ ay > py)) => order > 0
              /\ ev.rect.width = ev.rect.height =>
                    /\ ax * ax + ay * ay >= px * px + py * py => order >= 0
                    /\ ax * ax + ay * ay > px * px + py * py => order > 0
        /\ BoundedAndCentered(el)

\* C8 witness: a pointer-move 20px below the center of a 200x50 element
\* displaced it by 16px.
C8_Witness ==
    /\ MovedInside("btnA")
    /\ lastEvent["btnA"].rect = [left |-> 0, top |-> 0, width |-> 200, height |-> 50]
    /\ lastEvent["btnA"].clientX = 100 /\ lastEvent["btnA"].clientY = 45
    /\ transform["btnA"] = [x |-> Zero, y |-> <<16, 1>>, unit |-> "px"]

\* C9: after a pointer-move the translation is, per axis,
\* (pointer - center) / dimension * strength, in px; for a 200x200 element
\* centered at (100,100) and the pointer at (150,100) it is (10px, 0px).
C9_PerAxisTranslation ==
    \A el \in Magnets : lastEvent[el].type = "move" =>
        LET ev == lastEvent[el]
            t == transform[el]
        IN
        /\ t.unit = "px"
        /\ t.x[1] * 2 * ev.rect.width = t.x[2] * OffX2(ev.rect, ev.clientX) * strength
        /\ t.y[1] * 2 * ev.rect.height = t.y[2] * OffY2(ev.rect, ev.clientY) * strength
        /\ (/\ ev.rect = [left |-> 0, top |-> 0, width |-> 200, height |-> 200]
            /\ ev.clientX = 150 /\ ev.clientY = 100) =>
              t = [x |-> <<10, 1>>, y |-> <<0, 1>>, unit |-> "px"]

\* C9 witness: the pointer-move at (150,100) over the 200x200 element at (0,0).
C9_Witness ==
    /\ lastEvent["btnB"].type = "move"
    /\ lastEvent["btnB"].rect = [left |-> 0, top |-> 0, width |-> 200, height |-> 200]
    /\ lastEvent["btnB"].clientX = 150 /\ lastEvent["btnB"].clientY = 100
    /\ transform["btnB"].x = <<10, 1>>

\* C10: after a pointer-leave the element's translation is exactly (0,0),
\* whatever the earlier pointer-moves produced, and it changes again only by
\* a pointer-move on that same element.
C10_LeaveResets ==
    [][\A el \in Magnets :
          /\ lastEvent'[el].type = "leave" =>
                transform'[el].x = Zero /\ transform'[el].y = Zero
          /\ (lastEvent[el].type = "leave" /\ transform'[el] # transform[el]) =>
                lastEvent'[el].type = "move"]_vars

\* C10 witness: btnA was displaced, then left; afterwards btnB was displaced
\* and btnA is still at rest.
C10_Witness ==
    /\ lastEvent["btnA"].type = "leave" /\ displaced["btnA"]
    /\ transform["btnA"] = RestTransform
    /\ lastEvent["btnB"].type = "move" /\ transform["btnB"].x # Zero


(***************************************************************************)
(* Pointer-attraction controller: life cycle                               *)
(***************************************************************************)
\* The step is a mousemove handled by the controller of a detached el.
DetachedMoveStep(el) ==
    /\ ~attached[el] /\ listening[el]
    /\ lastEvent'[el].type = "moveDetached"
    /\ \/ lastEvent'[el] # lastEvent[el]
       \/ transition'[el] # transition[el]
       \/ transform'[el] # transform[el]

\* C11: a pointer-move handled for a detached element (a rectangle of zero
\* width and height) is a no-op: the element's transform and transition are
\* left as they were.
C11_DetachedMoveIsNoOp ==
    [][\A el \in Magnets : DetachedMoveStep(el) =>
          /\ transform'[el] = transform[el]
          /\ transition'[el] = transition[el]]_vars

\* The part of C11 the code keeps: the translation computed for a detached
\* element is not finite and the element's transform stays as it was.
DetachedMoveKeepsTransform ==
    [][\A el \in Magnets : DetachedMoveStep(el) =>
          /\ ~Finite(translate(DetachedRect, lastEvent'[el].clientX,
                               lastEvent'[el].clientY).x)
          /\ transform'[el] = transform[el]]_vars



\* The step changes the style of el or is an event its controller handled.
TouchesStep(el) ==
    \/ lastEvent'[el] # lastEvent[el]
    \/ transform'[el] # transform[el]
    \/ transition'[el] # transition[el]

\* C14: a pointer event handled for one magnetic element leaves the transform
\* and transition of every other magnetic element unchanged, and changes
\* nothing else of the page than that element's transform and transition.
C14_ControllersIndependent ==
    [][\A a \in Magnets : TouchesStep(a) =>
          /\ \A b \in Magnets \ {a} :
                transform'[b] = transform[b] /\ transition'[b] = transition[b]
          /\ UNCHANGED <<hoverImgSrc, hoverActive, hoverLeft, hoverTop>>
          /\ UNCHANGED <<navActive, overlayActive, loaderLoaded>>
          /\ UNCHANGED <<listening, attached>>]_vars

\* C14 witness: btnB was displaced and released, then btnA was displaced by
\* 10px; btnB is still at rest with its release transition.
C14_Witness ==
    /\ lastEvent["btnB"].type = "leave" /\ displaced["btnB"]
    /\ transform["btnB"] = RestTransform /\ transition["btnB"] = ReleaseTransition
    /\ lastEvent["btnA"].type = "move"
    /\ transform["btnA"] = [x |-> <<10, 1>>, y |-> <<10, 1>>, unit |-> "px"]
    /\ transition["btnA"] = EngageTransition

\* A transition duration in tenths of a second.
DurationTenths(duration) ==
    CASE duration = "0.3s" -> 3
      [] duration = "0.7s" -> 7
      [] OTHER -> 0

\* C16: the element's transition has the short duration (0.3s) when the last
\* event its controller handled was a pointer-move and the long one (0.7s)
\* when it was a pointer-leave, with the same easing curve in both.
C16_EngageFastReleaseSlow ==
    \A el \in Magnets :
        /\ lastEvent[el].type \in {"move", "moveDetached"} =>
              /\ transition[el].property = "transform"
              /\ transition[el].duration = "0.3s"
              /\ transition[el].easing = "cubic-bezier(.7, 0, .3, 1)"
        /\ lastEvent[el].type = "leave" =>
              /\ transition[el].property = "transform"
              /\ transition[el].duration = "0.7s"
              /\ transition[el].easing = "cubic-bezier(.7, 0, .3, 1)"
        /\ lastEvent[el].type = "none" => transition[el] = NoTransition
        /\ DurationTenths(EngageTransition.duration)
              < DurationTenths(ReleaseTransition.duration)

\* C16 witness: btnA was last moved over and btnB last left.
C16_Witness ==
    /\ lastEvent["btnA"].type = "move" /\ transition["btnA"].duration = "0.3s"
    /\ lastEvent["btnB"].type = "leave" /\ transition["btnB"].duration = "0.7s"
    /\ transition["btnA"].easing = transition["btnB"].easing

\* C19: a controller's listeners are attached from construction until
\* destroy() is called and detached from then on (removing the element from
\* the document does not detach them); while they are attached a pointer-move
\* that brings the pointer over the element and the pointer-leave are handled;
\* destroy() itself leaves the transform and transition as they are, and once
\* it was called no event changes them.
C19_DetachedOnlyByDestroy ==
    [][\A el \in Magnets :
          /\ listening[el] = ~destroyed[el]
          /\ listening'[el] = ~destroyed'[el]
          /\ destroyed[el] => destroyed'[el]
          /\ destroyed'[el] # destroyed[el] =>
                UNCHANGED <<transform, transition, attached, magnetHover, lastEvent>>
          /\ destroyed[el] =>
                transform'[el] = transform[el] /\ transition'[el] = transition[el]
          /\ (~destroyed[el] /\ magnetHover # el /\ magnetHover' = el) =>
                /\ lastEvent'[el].type = "move"
                /\ transition'[el] = EngageTransition
          /\ (~destroyed[el] /\ magnetHover = el /\ magnetHover' # el /\ attached'[el]) =>
                /\ lastEvent'[el].type = "leave"
                /\ transform'[el] = RestTransform
          /\ (~destroyed[el] /\ ~attached[el] /\ lastEvent'[el] # lastEvent[el]) =>
                lastEvent'[el].type = "moveDetached"]_vars

\* C19 witness: btnA was displaced, destroy() was called while the pointer
\* was over it, and the pointer has left since: the translation is still there.
C19_Witness ==
    /\ destroyed["btnA"] /\ ~listening["btnA"]
    /\ lastEvent["btnA"].type = "move"
    /\ transform["btnA"] = [x |-> <<10, 1>>, y |-> <<0, 1>>, unit |-> "px"]
    /\ magnetHover = "btnB"
    /\ attached["btnA"]


(***************************************************************************)
(* Pointer handlers of both controllers: properties                        *)
(***************************************************************************)
\* The follower's target is the latest mousemove's coordinates minus the
\* offsets, and (0, 0) before the first one.
LastMoveIsTarget ==
    IF lastMove = << >>
    THEN mouseX = 0 /\ mouseY = 0
    ELSE /\ mouseX = (lastMove[1] - OffsetX) * Scale
         /\ mouseY = (lastMove[2] - OffsetY) * Scale

\* C15: the most recent pointer-move wins: while a pointer-move is the last
\* event handled for a magnetic element its translation is the one computed
\* from that move alone, and the follower's target is the latest mousemove's
\* coordinates minus (175, 200).
C15_LastMoveWins ==
    /\ \A el \in Magnets : lastEvent[el].type = "move" =>
          transform[el] = translate(lastEvent[el].rect, lastEvent[el].clientX,
                                    lastEvent[el].clientY)
    /\ LastMoveIsTarget

\* C15 witness: btnA was displaced by an earlier move and its latest move,
\* at its center, put it at (0px, 0px); the follower's latest mousemove was
\* at (475, 400) and its target is (300, 200).
C15_Witness ==
    /\ lastEvent["btnA"].type = "move" /\ displaced["btnA"]
    /\ lastEvent["btnA"].clientX = 100 /\ lastEvent["btnA"].clientY = 100
    /\ transform["btnA"] = [x |-> Zero, y |-> Zero, unit |-> "px"]
    /\ lastMove = <<475, 400>>
    /\ mouseX = 300 * Scale /\ mouseY = 200 * Scale

(***************************************************************************)
(* DOMContentLoaded handler: properties                                    *)
(***************************************************************************)
AllSteps == {InitSteps[i] : i \in DOMAIN InitSteps}

\* C12: when one init step of the DOMContentLoaded handler fails, every other
\* step has still run once the handler is over.
C12_FailureIsNotFatal ==
    (domReady /\ thrown # NoStep) => completed = AllSteps \ {thrown}

\* What the code does instead: the steps before the failing one have run and
\* none of the steps after it.
FailureEndsTheHandler ==
    (domReady /\ thrown # NoStep) =>
        \E i \in DOMAIN InitSteps :
            /\ thrown = InitSteps[i]
            /\ completed = {InitSteps[j] : j \in 1..(i - 1)}


\* The behaviours that depend on optional elements: the elements each needs
\* and what its initialisation registers.
Behaviours ==
    { [name |-> "loader", needs |-> {"pageLoader"},
       registers |-> {"load:dismissLoader", "timeout:loader"}],
      [name |-> "marquee", needs |-> {"marquee"},
       registers |-> {"tween:marquee", "scroll:marquee"}],
      [name |-> "hamburgerMenu",
       needs |-> {"btnHamburger", "fixedNav", "fixedNavOverlay"},
       registers |-> {"click:btnHamburger", "click:fixedNavOverlay", "click:navLinks"}],
      [name |-> "hamburgerVisibility", needs |-> {"btnHamburger"},
       registers |-> {"trigger:btnHamburger"}],
      [name |-> "workTiles", needs |-> {"workTilesGrid"},
       registers |-> {"tiles:workTilesGrid"}],
      [name |-> "workHover",
       needs |-> {"workHoverImage", "workHoverImg", "workRows"},
       registers |-> {"mouseenter:workRows", "mousemove:workRows",
                      "mouseleave:workRows"}],
      [name |-> "localTime", needs |-> {"localTime"},
       registers |-> {"interval:localTime"}] }

Affected(b) == ~(b.needs \subseteq present)

\* The scripts an init step uses without checking that they are loaded.
ScriptsNeeded(step) ==
    CASE step = "initMagnetic" -> {"magnetic"}
      [] step = "initMarquee" -> {"gsap"}
      [] step = "initScrollAnimations" -> {"gsap", "ScrollTrigger"}
      [] step = "initHamburgerVisibility" -> {"ScrollTrigger"}
      [] OTHER -> {}

\* C13 (as claimed): with every script loaded and any of the optional elements
\* absent, the affected behaviours register no listener and no timer, no step
\* throws and all ten steps complete.
C13_AsClaimed ==
    (domReady /\ scripts = Scripts) =>
        /\ \A b \in Behaviours : Affected(b) => b.registers \cap registered = {}
        /\ thrown = NoStep
        /\ completed = AllSteps

\* C13 (amended): whatever optional elements are absent, an affected behaviour
\* registers no listener and no timer, except that the window 'load' listener
\* of the page loader is registered whenever the document is not yet complete
\* (with the loader absent it schedules no timer, then or later); no step
\* throws because of an absent element (a step throws only for a script that
\* is not loaded), and with every script loaded all ten steps complete.
C13_AbsentElementsSkip ==
    domReady =>
        /\ \A b \in Behaviours : Affected(b) =>
              b.registers \cap registered \subseteq {"load:dismissLoader"}
        /\ ("load:dismissLoader" \in registered) = (dismissedBy # "immediate")
        /\ "pageLoader" \notin present =>
              loaderTimers = 0 /\ heroTimers = 0 /\ heroStarts = 0
        /\ thrown # NoStep => ~(ScriptsNeeded(thrown) \subseteq scripts)
        /\ scripts = Scripts => thrown = NoStep /\ completed = AllSteps

\* C13 witness: a document with none of the optional elements and every
\* script: all ten steps completed and only the load listener was registered
\* for the absent loader.
C13_Witness ==
    /\ domReady /\ present = {} /\ scripts = Scripts
    /\ completed = AllSteps /\ thrown = NoStep
    /\ "load:dismissLoader" \in registered
    /\ readyState = "complete"



\* C20: dismissLoader is called through exactly one path, at init when the
\* document is already complete and otherwise by the window's load event; the
\* 'loaded' class is added only after the page has loaded, the hero entry
\* animation starts only after that class was added and at most once, and with
\* the loader absent or already 'loaded' no timeout is scheduled.
C20_LoaderOrdering ==
    [][/\ dismissCalls' = (IF dismissedBy' = "none" THEN 0 ELSE 1)
       /\ domReady' =>
             dismissedBy' = (IF readyState' # "complete" THEN "none"
                             ELSE IF "load:dismissLoader" \in registered'
                                  THEN "load" ELSE "immediate")
       /\ (~domReady /\ domReady') =>
             ("load:dismissLoader" \in registered') = (readyState # "complete")
       /\ (~loaderLoaded /\ loaderLoaded') =>
             readyState = "complete" /\ dismissCalls = 1
       /\ heroStarts' > heroStarts => loaderLoaded /\ heroStarts = 0
       /\ heroStarts' <= 1
       /\ loaderTimers' > loaderTimers =>
             /\ "pageLoader" \in present /\ ~loaderLoaded
             /\ dismissCalls' = dismissCalls + 1
       /\ heroTimers' > heroTimers => loaderTimers' < loaderTimers
       /\ loaderTimers' + heroTimers' <= 1
       /\ (dismissCalls' > dismissCalls /\ ("pageLoader" \notin present \/ loaderLoaded)) =>
             loaderTimers' = 0 /\ heroTimers' = 0]_vars

\* C20 witness: the loader was dismissed by the load event and the hero entry
\* animation has started.
C20_Witness ==
    /\ dismissedBy = "load" /\ dismissCalls = 1
    /\ readyState = "complete" /\ loaderLoaded
    /\ heroStarts = 1 /\ loaderTimers = 0 /\ heroTimers = 0

(***************************************************************************)
(* Marquee: properties                                                     *)
(***************************************************************************)
\* C17: from a scroll event until 300 ms have passed since the most recent
\* scroll event the speed factor is 2 and the marquee tween runs at that
\* boosted rate; the factor is 1 only when 300 ms have passed since the most
\* recent scroll.
C17_BoostWhileScrolled ==
    /\ sinceScroll < BoostDelay => scrollSpeed = 2
    /\ marqueeTimeScale = scrollSpeed

\* The first half of C17 alone: the factor stays 2 until 300 ms after the
\* most recent scroll event.
BoostHeldSinceLatestScroll ==
    sinceScroll < BoostDelay => scrollSpeed = 2

\* What the code does: the factor is 2 after a scroll event until the timeout
\* of any scroll event of the last 300 ms fires, and the tween's rate never
\* changes.
BoostEndsAtFirstTimeout ==
    [][/\ marqueeTimeScale' = marqueeTimeScale
       /\ (scrollSpeed = 2 /\ scrollSpeed' = 1) =>
             scrollTimers # << >> /\ Head(scrollTimers) = 0]_vars


(***************************************************************************)
(* Navigation panel: properties                                            *)
(***************************************************************************)
ClickStep == navClicks' = navClicks + 1

\* C18: the panel and the overlay are both 'active' or both not; a click on
\* the hamburger button or the overlay flips the panel, a click on a link of
\* the panel leaves it closed, and the entry animation of the links is
\* started only by a click that opens the panel.
C18_PanelToggles ==
    [][/\ navActive = overlayActive
       /\ navActive' = overlayActive'
       /\ (ClickStep /\ lastClick'.target \in {"btnHamburger", "fixedNavOverlay"}) =>
             navActive' = ~navActive
       /\ (ClickStep /\ lastClick'.target = "navLink") => ~navActive'
       /\ (linkTweens' > linkTweens \/ (ClickStep /\ lastClick'.animated)) =>
             /\ ClickStep
             /\ lastClick'.target \in {"btnHamburger", "fixedNavOverlay"}
             /\ ~navActive /\ navActive']_vars

\* C18 witness: the panel was opened by the hamburger button, closed by a
\* link, and opened again by a click that started the second entry animation
\* while the first was still running.
C18_Witness ==
    /\ navClicks = 3 /\ navActive /\ overlayActive
    /\ lastClick = [target |-> "fixedNavOverlay", wasActive |-> FALSE, animated |-> TRUE]
    /\ linkTweens = 2


(***************************************************************************)
(* Marquee position modifier: properties                                   *)
(***************************************************************************)
\* The value of (-width, 0] congruent to x modulo width, in exact arithmetic.
Wrapped(x, width) == 0 - ((0 - x) % width)

\* C21 (as claimed): the modifier's result is in the half-open range
\* (-singleSetWidth, 0] and congruent to the raw x modulo singleSetWidth.
C21_AsClaimed ==
    /\ 0 - singleSetWidth < marqueeX.n /\ marqueeX.n <= 0
    /\ (marqueeX.n - tweenX.n) % singleSetWidth = 0

\* C21 (amended): the modifier's result is in the closed range
\* [-singleSetWidth, 0], never positive, with the unit of the raw x; it is the
\* value of (-singleSetWidth, 0] congruent to the raw x, rounded to the
\* nearest floating-point value: exactly that value for a raw x that is zero
\* or negative, and possibly -singleSetWidth itself for a positive one.
C21_ModifierRange ==
    /\ 0 - singleSetWidth <= marqueeX.n /\ marqueeX.n <= 0
    /\ marqueeX.unit = tweenX.unit
    /\ Representable(marqueeX.n)
    /\ marqueeX.n = RoundToFloat(Wrapped(tweenX.n, singleSetWidth))
    /\ tweenX.n <= 0 =>
          /\ marqueeX.n = Wrapped(tweenX.n, singleSetWidth)
          /\ 0 - singleSetWidth < marqueeX.n
    /\ marqueeX.n = 0 - singleSetWidth =>
          /\ tweenX.n > 0
          /\ 2 * (tweenX.n % singleSetWidth) <= UlpOf(singleSetWidth)

\* C21 witness: a raw x one step above zero is mapped to -singleSetWidth,
\* the subtraction having rounded.
C21_Witness ==
    /\ singleSetWidth = Pow(2, MantissaBits + 1)
    /\ tweenX = Px(1)
    /\ marqueeX = Px(0 - singleSetWidth)

=============================================================================
